---- MODULE Spec2Model ----
(***************************************************************************)
(* FloodFusion (src/Floodfusion.js): the Earth Engine app's UI handlers,   *)
(* the asynchronous run pipeline (runAnalysis / displayResults and their   *)
(* evaluate / getDownloadURL callbacks) and the pure raster operations.    *)
(*                                                                         *)
(* Every handler runs to completion on the single UI thread; a remote      *)
(* request is a callback record in `pending` that fires later, in any      *)
(* order relative to the other handlers.                                   *)
(***************************************************************************)
EXTENDS Integers, Sequences, FiniteSets, Bags, TLC

\* ------------------------------------------------------------------ bounds
MaxRuns == 2            \* runs tracked at once (a finished run's slot is reused)
MaxSamples == 2         \* labeled points in the training asset
MaxAoiLoads == 1        \* Default-AOI evaluate callbacks in flight at once

Runs == 1..MaxRuns
SampleIds == 1..MaxSamples

\* ------------------------------------------------------------ CONFIG values
DEFAULT_TRAINING_SPLIT == 7     \* 0.7, in tenths
DEFAULT_SLOPE_THRESHOLD == 5
DEFAULT_CONNECTIVITY_THRESHOLD == 8
DEFAULT_CLASS_COLUMN == "Planet_flo"

\* --------------------------------------------------------------- UI state
VARIABLES
    nepalImported,      \* typeof Nepal !== 'undefined' (the Imports tab)
    aoiDrawn,           \* drawingTools.layers().get(0) holds a geometry
    drawMode,           \* drawingTools.draw() is active
    runButtonDisabled,  \* runButton.getDisabled()
    statusLabel,        \* statusLabel value: [kind, text, detail]
    resultsPanel,       \* resultsPanel widgets: a bag of labels (order not kept)
    legendPanel,        \* legendPanel holds the legend
    areaPanelLabel,     \* areaPanelLabel value
    mapLayers,          \* map.layers(): a bag of layer names (order not kept)
    columnValue,        \* columnSelectDropdown.getValue()
    fetchButtonDisabled,\* fetchColumnsButton.getDisabled()
    pending,            \* remote requests whose callback has not fired
    aoiLoads,           \* Default-AOI evaluate callbacks that have not fired
    phase,              \* per run slot: where the pipeline stands
    env,                \* per run in flight: the inputs and collections of its closure
    split,              \* per run in flight: the sample sets of its split
    issued,             \* per run in flight: remote requests issued, in order
    stages,             \* per run in flight: pipeline stages reached, in order
    lastError,          \* the error the latest run callback was handed ("" if none)
    observed,           \* the display widgets this specification observes
    slots,              \* the run slots this specification uses
    entries,            \* what this specification lets the date and tree boxes hold
    scene,              \* the rasters the post-filter is given: classified, slope
    sliders,            \* slopeSlider and connectivitySlider values
    result,             \* the rasters the post-filter produced
    cloud,              \* one pixel of the optical collection, masked and composited
    speckle,            \* one 7x7 window of a radar band and its filtered centre
    areas               \* what displayResults derives from the final classification

uiVars == <<aoiDrawn, drawMode, runButtonDisabled, statusLabel, resultsPanel,
            legendPanel, areaPanelLabel, mapLayers>>
colVars == <<columnValue, fetchButtonDisabled>>
runVars == <<phase, env, split, issued, stages>>
cfgVars == <<observed, slots, entries>>
appVars == <<nepalImported, uiVars, colVars, pending, aoiLoads, runVars, lastError>>
rasterVars == <<scene, sliders, result, cloud, speckle, areas>>
vars == <<appVars, cfgVars, rasterVars>>

NoValue == "null"
ASSET == "users/srijal2023/Melamchi_points_water"
AssetIds == {"", ASSET}
Errors == {"quota"}

Status(text) == [kind |-> "Status", text |-> text, detail |-> ""]
ErrorStatus(message, detail) == [kind |-> "Error", text |-> message, detail |-> detail]

\* The messages of lines 490 and 648.
MelamchiNotFound ==
    "Could not find Melamchi in the asset. Default point used. Check \"GaPa_NaPa\" value."
NoTrainingData ==
    "No valid training data found. Points may be in cloudy areas or outside image extent."

\* ------------------------------------------------- Earth Engine image graph
\* An image expression is either an error or a list of band names; evaluation
\* is lazy, so an error made while building the graph surfaces at the first
\* evaluate() that needs the image.
ErrImage == [ok |-> FALSE, bands |-> <<>>]
Image(bandNames) == [ok |-> TRUE, bands |-> bandNames]

\* ee.Image() with no argument: a fully masked image with the single band
\* "constant" (the client builds Image.mask(Image(0), Image(0))).
EmptyImage == Image(<<"constant">>)

BandSet(img) == {img.bands[i] : i \in 1..Len(img.bands)}

\* Image.rename(names): the number of names must match the number of bands.
Rename(img, names) ==
    IF ~img.ok \/ Len(img.bands) # Len(names) THEN ErrImage ELSE Image(names)

\* Image.select(names): every name must match a band.
Select(img, names) ==
    IF ~img.ok \/ \E i \in 1..Len(names) : names[i] \notin BandSet(img)
    THEN ErrImage ELSE Image(names)

\* Image.addBands / ee.Image.cat
AddBands(a, b) == IF ~a.ok \/ ~b.ok THEN ErrImage ELSE Image(a.bands \o b.bands)

\* refinedLee(img): new_pixel.rename(bandNames) keeps the band names.
RefinedLeeBands(img) == Rename(img, img.bands)

S1_BANDS == <<"VV", "VH", "angle">>
S2_SR_BANDS == <<"B1", "B2", "B3", "B4", "B5", "B6", "B7", "B8", "B8A", "B9",
                 "B11", "B12">>
s2_bands == <<"B2", "B3", "B4", "B5", "B6", "B7", "B8", "B8A", "B11", "B12">>

\* processS1_ARD: s1size is the size of the filtered radar collection.
processS1_ARD(s1size) ==
    LET s1_composite == IF s1size > 0 THEN Image(S1_BANDS)
                        ELSE Rename(EmptyImage, <<"VV", "VH">>)
        vv_filtered == IF ~s1_composite.ok THEN ErrImage
                       ELSE IF "VV" \in BandSet(s1_composite)
                       THEN Rename(RefinedLeeBands(Select(s1_composite, <<"VV">>)),
                                   <<"VV_Filtered">>)
                       ELSE Rename(EmptyImage, <<"VV_Filtered">>)
        vh_filtered == IF ~s1_composite.ok THEN ErrImage
                       ELSE IF "VH" \in BandSet(s1_composite)
                       THEN Rename(RefinedLeeBands(Select(s1_composite, <<"VH">>)),
                                   <<"VH_Filtered">>)
                       ELSE Rename(EmptyImage, <<"VH_Filtered">>)
        ratio == IF ~vv_filtered.ok \/ ~vh_filtered.ok THEN ErrImage
                 ELSE IF Len(vv_filtered.bands) > 0 /\ Len(vh_filtered.bands) > 0
                 THEN Rename(vv_filtered, <<"Ratio_Filtered">>)
                 ELSE Rename(EmptyImage, <<"Ratio_Filtered">>)
    IN  AddBands(AddBands(vv_filtered, vh_filtered), ratio)

\* processS2_ARD: s2size is the size of the filtered optical collection.
processS2_ARD(s2size) ==
    IF s2size > 0 THEN Image(S2_SR_BANDS) ELSE EmptyImage

\* The stack sampled and classified by the run (runAnalysis, line 627).
stackedImage(s1size, s2size) ==
    AddBands(Select(processS2_ARD(s2size), s2_bands), processS1_ARD(s1size))

\* ------------------------------------------------------------ sample split
\* randomColumn('random'): a pseudo-random value per row for a given seed
\* (default 0), here in tenths of [0,1). The generator runs on the server and
\* is not part of the script: RandomValue stands in for it with one sample
\* drawing exactly the split value and one drawing less. Only the two filters
\* applied to the column are the script's.
DefaultSeed == 0
RandomValue(id, seed) == (4 * id + 3 + 3 * seed) % 10
randomColumn(samples, seed) == [id \in samples |-> RandomValue(id, seed)]

\* A wrong validation filter, 'random' > split: the row that draws exactly the
\* split value lands in neither set.
validationSetStrict(sampledWithRandom) ==
    {id \in DOMAIN sampledWithRandom : sampledWithRandom[id] > DEFAULT_TRAINING_SPLIT}

trainingSetOf(sampledWithRandom) ==
    {id \in DOMAIN sampledWithRandom : sampledWithRandom[id] < DEFAULT_TRAINING_SPLIT}
validationSetOf(sampledWithRandom) ==
    {id \in DOMAIN sampledWithRandom : sampledWithRandom[id] >= DEFAULT_TRAINING_SPLIT}

\* ------------------------------------------------------- text box inputs
DEFAULT_START_DATE == "2021-06-01"
DEFAULT_END_DATE == "2021-07-31"
DEFAULT_RF_TREES == "500"           \* String(CONFIG.DEFAULT_RF_TREES)

\* ee.Date(text): the day the text names (days since 1970-01-01), or an error.
DateTexts == {DEFAULT_START_DATE, DEFAULT_END_DATE, "next week"}
Date(text) ==
    IF text = "2021-06-01" THEN [ok |-> TRUE, day |-> 18779]
    ELSE IF text = "2021-07-31" THEN [ok |-> TRUE, day |-> 18839]
    ELSE [ok |-> FALSE, day |-> 0]

\* ee.Number.parse(text): the number as a fraction n/d, or an error.
TreeTexts == {DEFAULT_RF_TREES, "0", "-3", "2.5", "many"}
NumberParse(text) ==
    IF text = "500" THEN [ok |-> TRUE, n |-> 500, d |-> 1]
    ELSE IF text = "0" THEN [ok |-> TRUE, n |-> 0, d |-> 1]
    ELSE IF text = "-3" THEN [ok |-> TRUE, n |-> -3, d |-> 1]
    ELSE IF text = "2.5" THEN [ok |-> TRUE, n |-> 5, d |-> 2]
    ELSE [ok |-> FALSE, n |-> 0, d |-> 1]

DefaultEntry == [startDate |-> DEFAULT_START_DATE, endDate |-> DEFAULT_END_DATE,
                 rfTrees |-> DEFAULT_RF_TREES]
AllEntries == [startDate : DateTexts, endDate : DateTexts, rfTrees : TreeTexts]

\* filterDate(startDate, endDate) keeps the images of [start, end): no image
\* when start >= end.
EmptyWindow(startDate, endDate) ==
    Date(startDate).ok /\ Date(endDate).ok /\ Date(startDate).day >= Date(endDate).day

\* The errors ee.Classifier.smileRandomForest(rfTrees) can evaluate to ("":
\* none). A count that is no number fails in Number.parse, a count below 1
\* fails in the classifier, and a fractional count is either refused or
\* truncated.
TreesErrors(rfTrees) ==
    LET trees == NumberParse(rfTrees)
    IN  IF ~trees.ok THEN {"Number.parse"}
        ELSE IF trees.d # 1 THEN {"", "Classifier.smileRandomForest"}
        ELSE IF trees.n < 1 THEN {"Classifier.smileRandomForest"}
        ELSE {""}

NoEnv == [s1size |-> 0, s2size |-> 0, startDate |-> "", endDate |-> "", rfTrees |-> ""]
NoSplit == [sampled |-> {}, random |-> <<>>, trainingSet |-> {}, validationSet |-> {},
            trainedOn |-> {}, matrixFrom |-> {}]

\* ------------------------------------------------------- raster operations
\* An image over a pixel grid: each pixel <<x, y>> has a value v and a mask
\* bit m (FALSE = masked, no data).
Pixel(v) == [v |-> v, m |-> TRUE]
NoData == [v |-> 0, m |-> FALSE]
Bit(b) == IF b THEN 1 ELSE 0
Min(a, b) == IF a <= b THEN a ELSE b
Valid(img) == {p \in DOMAIN img : img[p].m}

\* Pixelwise comparisons with a constant: 1 or 0, the mask kept.
Lte(img, k) == [p \in DOMAIN img |-> [v |-> Bit(img[p].v <= k), m |-> img[p].m]]
Gte(img, k) == [p \in DOMAIN img |-> [v |-> Bit(img[p].v >= k), m |-> img[p].m]]
Eq(img, k) == [p \in DOMAIN img |-> [v |-> Bit(img[p].v = k), m |-> img[p].m]]

\* input.where(test, value): value where test is non-zero, else input.
Where(input, test, value) ==
    [p \in DOMAIN input |->
        IF test[p].m /\ test[p].v # 0
        THEN [v |-> value[p].v, m |-> input[p].m /\ value[p].m]
        ELSE input[p]]

\* img.updateMask(mask): valid where it was valid and mask is valid, non-zero.
UpdateMask(img, mask) ==
    [p \in DOMAIN img |->
        [v |-> img[p].v, m |-> img[p].m /\ mask[p].m /\ mask[p].v # 0]]
SelfMask(img) == UpdateMask(img, img)

\* The pixels that touch p: 8 with the diagonals, 4 without.
Offsets(eightConnected) ==
    {d \in (-1..1) \X (-1..1) :
        d # <<0, 0>> /\ (eightConnected \/ d[1] = 0 \/ d[2] = 0)}
Neighbours(p, eightConnected) ==
    {<<p[1] + d[1], p[2] + d[2]>> : d \in Offsets(eightConnected)}

\* The connected patch of valid pixels holding the same value as p.
RECURSIVE Grow(_, _, _, _)
Grow(frontier, seen, same, eightConnected) ==
    LET next == (UNION {Neighbours(p, eightConnected) : p \in frontier} \cap same)
                \ seen
    IN  IF next = {} THEN seen ELSE Grow(next, seen \cup next, same, eightConnected)
Patch(img, p, eightConnected) ==
    Grow({p}, {p}, {q \in Valid(img) : img[q].v = img[p].v}, eightConnected)

RECURSIVE PatchSizes(_, _, _, _)
PatchSizes(img, todo, eightConnected, sizes) ==
    IF todo = {} THEN sizes
    ELSE LET p == CHOOSE q \in todo : TRUE
             patch == Patch(img, p, eightConnected)
         IN  PatchSizes(img, todo \ patch, eightConnected,
                        [q \in DOMAIN sizes \cup patch |->
                            IF q \in patch THEN Cardinality(patch) ELSE sizes[q]])

\* img.connectedPixelCount({maxSize, eightConnected}): per pixel the size of
\* its patch of equal-valued pixels, itself included, counted up to maxSize.
connectedPixelCount(img, maxSize, eightConnected) ==
    LET sizes == PatchSizes(img, Valid(img), eightConnected, [q \in {} |-> 0])
    IN  [p \in DOMAIN img |->
            IF img[p].m THEN Pixel(Min(sizes[p], maxSize)) ELSE NoData]

\* ---------------------------------------------- post-filter (lines 667-683)
maxSize == 100

\* Wrong variants of the steps below: a strict slope test, a cap of 10 on
\* the patch count, and finalFloodPixels used without where().
slopeMaskStrict(slope, slopeThreshold) ==
    [p \in DOMAIN slope |-> [v |-> Bit(slope[p].v < slopeThreshold), m |-> slope[p].m]]
finalFloodPixelsSmallCap(flood, connectivityThreshold) ==
    IF connectivityThreshold > 0
    THEN Gte(connectedPixelCount(flood, 10, TRUE), connectivityThreshold)
    ELSE flood
patchFilteredEverywhere(classified, flood, final) == final

\* Line 669.
slopeMask(slope, slopeThreshold) == Lte(slope, slopeThreshold)
\* Line 671.
floodPixels(classified) == Eq(classified, 1)
\* Lines 673-678.
finalFloodPixels(flood, connectivityThreshold) ==
    IF connectivityThreshold > 0
    THEN Gte(connectedPixelCount(flood, maxSize, TRUE), connectivityThreshold)
    ELSE flood
\* Line 680: classified.where(floodPixels, finalFloodPixels)
patchFiltered(classified, flood, final) == Where(classified, flood, final)
\* Line 681: .updateMask(slopeMask)
finalClassification(patched, mask) == UpdateMask(patched, mask)
\* Line 683.
floodLayer(final) == SelfMask(Eq(final, 1))

PostFilter(classified, slope, slopeThreshold, connectivityThreshold) ==
    LET mask == slopeMask(slope, slopeThreshold)
        flood == floodPixels(classified)
        patched == patchFiltered(classified, flood,
                                 finalFloodPixels(flood, connectivityThreshold))
        final == finalClassification(patched, mask)
    IN  [done |-> TRUE, patchFiltered |-> patched, finalClassification |-> final,
         floodLayer |-> floodLayer(final)]

\* ------------------------------------------------------- post-filter inputs
SmallW == 2
SmallH == 2
MidW == 5
MidH == 4
BigW == 11
BigH == 10

Grid(w, h) == (1..w) \X (1..h)
SlopeThresholds == 0..30            \* slopeSlider: min 0, max 30, step 1
ConnectivityThresholds == 0..50     \* connectivitySlider: min 0, max 50, step 1

\* Slope fields: uniform ones, and a ramp that climbs 5 degrees per column.
Uniform(grid, k) == [p \in grid |-> Pixel(k)]
Ramp(grid) == [p \in grid |-> Pixel(5 * (p[1] - 1))]
SlopeFields(grid, degrees) == {Uniform(grid, k) : k \in degrees} \cup {Ramp(grid)}

\* Every 0/1 classification of the small grid, and those with no data at <<1, 1>>.
SmallClassified ==
    LET grid == Grid(SmallW, SmallH)
        all == {[p \in grid |-> Pixel(c[p])] : c \in [grid -> {0, 1}]}
    IN  all \cup {[img EXCEPT ![<<1, 1>>] = NoData] : img \in all}

\* A blob of n flooded pixels filled row by row from <<1, 1>>, and the same
\* with one more flooded pixel alone in the far corner.
Blob(w, h, n) == [p \in Grid(w, h) |-> Pixel(Bit((p[2] - 1) * w + p[1] <= n))]
BlobAndSpeck(w, h, n) == [Blob(w, h, n) EXCEPT ![<<w, h>>] = Pixel(1)]
MidClassified ==
    {Blob(MidW, MidH, n) : n \in {1, 10, 20}} \cup {BlobAndSpeck(MidW, MidH, 10)}
BigClassified == {Blob(BigW, BigH, n) : n \in {100, 101}}

Scenes ==
    {[classified |-> c, slope |-> s] :
        c \in SmallClassified, s \in SlopeFields(Grid(SmallW, SmallH), {0, 5, 10})}
    \cup {[classified |-> c, slope |-> s] :
            c \in MidClassified, s \in SlopeFields(Grid(MidW, MidH), {0, 5, 10})}
    \cup {[classified |-> c, slope |-> s] :
            c \in BigClassified, s \in SlopeFields(Grid(BigW, BigH), {0})}

NoScene == [classified |-> <<>>, slope |-> <<>>]
NoResult == [done |-> FALSE, patchFiltered |-> <<>>, finalClassification |-> <<>>,
             floodLayer |-> <<>>]

\* ------------------------------------------------------------ cloud mask
\* One pixel of the Sentinel-2 collection: per scene its QA60 value, the
\* digital number of a reflectance band and whether the scene has data there.
QABits == 16
MaxScenes == 3
REFLECTANCE_SCALE == 10000

RECURSIVE BitwiseAnd(_, _)
BitwiseAnd(a, b) ==
    IF a = 0 \/ b = 0 THEN 0
    ELSE (a % 2) * (b % 2) + 2 * BitwiseAnd(a \div 2, b \div 2)
LeftShift(a, n) == a * 2^n

cloudBitMask == LeftShift(1, 10)
cirrusBitMask == LeftShift(1, 11)

\* The cloud bit alone.
maskS2srCloudsNoCirrus(image) ==
    [n |-> image.B, d |-> REFLECTANCE_SCALE,
     m |-> image.m /\ BitwiseAnd(image.QA60, cloudBitMask) = 0]

\* maskS2srClouds (90-99): the reflectance band of the scene, as the fraction
\* n/d, kept where the scene has data and both bits are clear.
maskS2srClouds(image) ==
    LET qa == image.QA60
        mask == Bit(BitwiseAnd(qa, cloudBitMask) = 0)
                    * Bit(BitwiseAnd(qa, cirrusBitMask) = 0)
    IN  [n |-> image.B, d |-> REFLECTANCE_SCALE, m |-> image.m /\ mask # 0]

RECURSIVE Insert(_, _)
Insert(x, sorted) ==
    IF sorted = <<>> \/ x <= Head(sorted) THEN <<x>> \o sorted
    ELSE <<Head(sorted)>> \o Insert(x, Tail(sorted))
RECURSIVE Sort(_)
Sort(seq) == IF seq = <<>> THEN <<>> ELSE Insert(Head(seq), Sort(Tail(seq)))

\* ee.Reducer.median over numerators of one denominator: the middle value, or
\* the mean of the two middle values; masked when there is no input.
MedianOf(numerators, d) ==
    LET sorted == Sort(numerators)
        k == Len(sorted)
    IN  IF k = 0 THEN [n |-> 0, d |-> d, m |-> FALSE]
        ELSE IF k % 2 = 1 THEN [n |-> sorted[(k + 1) \div 2], d |-> d, m |-> TRUE]
        ELSE [n |-> sorted[k \div 2] + sorted[k \div 2 + 1], d |-> 2 * d, m |-> TRUE]

\* s2col.median() (151): the reducer sees the unmasked observations only.
median(col) ==
    MedianOf(SelectSeq([i \in DOMAIN col |-> IF col[i].m THEN col[i].n ELSE -1],
                       LAMBDA n : n >= 0),
             REFLECTANCE_SCALE)

QAValues == 0..(2^QABits - 1)
QASamples == {0, 1023, LeftShift(1, 10), LeftShift(1, 11), LeftShift(3, 10)}
Reflectances == {300, 1200, 9000}
SceneStacks ==
    {<<[QA60 |-> qa, B |-> 1200, m |-> TRUE]>> : qa \in QAValues}
    \cup UNION {[1..k -> [QA60 : QASamples, B : Reflectances, m : {TRUE}]] : k \in 2..MaxScenes}
    \cup [1..2 -> [QA60 : QASamples, B : {300, 1200}, m : BOOLEAN]]
NoCloud == [stage |-> "none", images |-> <<>>, masked |-> <<>>,
            composite |-> [n |-> 0, d |-> REFLECTANCE_SCALE, m |-> FALSE]]

\* --------------------------------------------------------- speckle filter
\* Pixel values are exact fractions n/d, d > 0, in lowest terms.
RECURSIVE GCD(_, _)
GCD(a, b) == IF b = 0 THEN a ELSE GCD(b, a % b)
Abs(a) == IF a < 0 THEN -a ELSE a
Frac(n, d) ==
    LET g == GCD(Abs(n), Abs(d))
        sign == IF d < 0 THEN -1 ELSE 1
    IN  [n |-> sign * (n \div g), d |-> sign * (d \div g)]
Const(k) == [n |-> k, d |-> 1]
\* Common factors are cancelled before multiplying, to keep the integers small.
Plus(x, y) ==
    LET g == GCD(x.d, y.d)
    IN  Frac(x.n * (y.d \div g) + y.n * (x.d \div g), (x.d \div g) * y.d)
Negate(x) == [n |-> -x.n, d |-> x.d]
Subtract(x, y) == Plus(x, Negate(y))
Multiply(x, y) ==
    LET a == Frac(x.n, y.d)
        b == Frac(y.n, x.d)
    IN  [n |-> a.n * b.n, d |-> a.d * b.d]
\* Image.divide: 0 where the divisor is 0.
Divide(x, y) == IF y.n = 0 THEN Const(0) ELSE Multiply(x, Frac(y.d, y.n))
Max(x, y) == IF x.n * y.d >= y.n * x.d THEN x ELSE y

KernelSize == 7
KernelCells == 1..(KernelSize * KernelSize)
KernelCentre == (KernelSize * KernelSize + 1) \div 2

RECURSIVE SumOver(_, _)
SumOver(window, k) == IF k = 0 THEN 0 ELSE window[k] + SumOver(window, k - 1)

\* reduceNeighborhood(ee.Reducer.mean(), kernel) at the centre of the window.
NeighborhoodMean(window) == Frac(SumOver(window, Len(window)), Len(window))

\* reduceNeighborhood(ee.Reducer.variance(), kernel): the population variance.
NeighborhoodVariance(window) ==
    LET squares == [k \in DOMAIN window |-> window[k] * window[k]]
    IN  Subtract(Frac(SumOver(squares, Len(squares)), Len(window)),
                 Multiply(NeighborhoodMean(window), NeighborhoodMean(window)))

\* refinedLee (72-84) at the centre of a window.
refinedLee(window) ==
    LET mean == NeighborhoodMean(window)
        variance == NeighborhoodVariance(window)
        center_pixel == Const(window[KernelCentre])
        b == Divide(variance, Multiply(mean, mean))
        T1 == Max(Subtract(Const(1), b), Const(0))
        T2 == Divide(T1, Plus(Const(1), T1))
    IN  Plus(Multiply(center_pixel, T2), Multiply(mean, Subtract(Const(1), T2)))

\* The divisors refinedLee hands to Image.divide, in the order of lines 79
\* and 81: mean * mean and 1 + T1.
refinedLeeDivisors(window) ==
    LET mean == NeighborhoodMean(window)
        variance == NeighborhoodVariance(window)
        b == Divide(variance, Multiply(mean, mean))
        T1 == Max(Subtract(Const(1), b), Const(0))
    IN  <<Multiply(mean, mean), Plus(Const(1), T1)>>

MaxValue == 2
Values == (-1)..MaxValue
UniformWindow(v) == [k \in KernelCells |-> v]
StepWindow(a, b, edge) == [k \in KernelCells |-> IF k <= edge THEN a ELSE b]
SpikeWindow(a, c) == [k \in KernelCells |-> IF k = KernelCentre THEN c ELSE a]
Windows ==
    {UniformWindow(v) : v \in Values}
    \cup {StepWindow(a, b, edge) : a \in Values, b \in Values, edge \in KernelCells}
    \cup {SpikeWindow(a, c) : a \in Values, c \in Values}
NoSpeckle == [stage |-> "none", img |-> ErrImage, window |-> <<>>,
              divisors |-> <<>>, new_pixel |-> Const(0), out |-> ErrImage]

\* ------------------------------------------------------- area and export
\* ee.Image.pixelArea() at the reduction scale of 10 m: square metres. The
\* true area of a pixel depends on where it lies.
PixelArea == 100
PixelAreas == {PixelArea \div 2, PixelArea, PixelArea + PixelArea \div 2}
SQM_PER_HECTARE == 10000
pixelArea(grid, sqm) == [p \in grid |-> Pixel(sqm)]
MultiplyImage(a, b) ==
    [p \in DOMAIN a |-> [v |-> a[p].v * b[p].v, m |-> a[p].m /\ b[p].m]]

\* ee.Reducer.sum() over the region: the unmasked pixels only.
RECURSIVE SumPixels(_, _)
SumPixels(img, pixels) ==
    IF pixels = {} THEN 0
    ELSE LET p == CHOOSE q \in pixels : TRUE
         IN  (IF img[p].m THEN img[p].v ELSE 0) + SumPixels(img, pixels \ {p})
reduceRegionSum(img) == SumPixels(img, DOMAIN img)

\* getInfo() hands the quotient over as a binary double of MantissaBits
\* significant bits. DoubleError(a, b) tells where that double lies relative
\* to a/b: -1 below, 0 exactly on it, 1 above (round to nearest, ties to even).
MantissaBits == 53
RECURSIVE BitLength(_)
BitLength(i) == IF i = 0 THEN 0 ELSE 1 + BitLength(i \div 2)
RECURSIVE RoundBits(_, _, _, _, _)
RoundBits(r, b, left, started, last) ==
    IF r = 0 THEN 0
    ELSE IF left = 0
    THEN IF 2 * r > b THEN 1
         ELSE IF 2 * r < b THEN -1
         ELSE IF last = 1 THEN 1 ELSE -1
    ELSE LET bit == IF 2 * r >= b THEN 1 ELSE 0
             rest == 2 * r - bit * b
         IN  IF started \/ bit = 1
             THEN RoundBits(rest, b, left - 1, TRUE, bit)
             ELSE RoundBits(rest, b, left, FALSE, 0)
DoubleError(a, b) ==
    LET whole == a \div b
    IN  RoundBits(a % b, b, MantissaBits - BitLength(whole), whole > 0, whole % 2)

\* number.toFixed(2) of the double nearest to the non-negative fraction x: the
\* hundredth nearest to the double, the larger one when the double itself is
\* half-way; as the integer part and the two decimals.
toFixed2(x) ==
    LET floor == (100 * x.n) \div x.d
        twice == 2 * ((100 * x.n) % x.d)
        hundredths == IF twice < x.d THEN floor
                      ELSE IF twice > x.d THEN floor + 1
                      ELSE IF DoubleError(x.n, x.d) < 0 THEN floor ELSE floor + 1
    IN  [units |-> hundredths \div 100, decimals |-> hundredths % 100]

\* The download layer without selfMask: zeros stay in the raster.
floodDownloadLayerUnmasked(final) == Eq(final, 1)

floodAreaImage(final, sqm) == MultiplyImage(Eq(final, 1), pixelArea(DOMAIN final, sqm))
floodDownloadLayer(final) == SelfMask(Eq(final, 1))

\* What displayResults has derived so far. stage: "none", "areaMetrics" (the
\* area request is out), "accuracy" (figures shown, the accuracy request is
\* out), "downloadURL" (download layer built, its request is out), "error"
\* (handleError ended the run) or "crashed" (getInfo threw).
NoFigure == [units |-> 0, decimals |-> 0]
NoAreas == [stage |-> "none", pixelArea |-> PixelArea, floodAreaImage |-> <<>>,
            shown |-> FALSE, floodArea |-> 0, aoiArea |-> 0,
            floodHa |-> NoFigure, aoiHa |-> NoFigure,
            floodDownloadLayer |-> <<>>]

AreaScenes ==
    {[classified |-> c, slope |-> s] :
        c \in SmallClassified, s \in SlopeFields(Grid(SmallW, SmallH), {0, 5, 10})}
    \cup {[classified |-> c, slope |-> s] :
            c \in MidClassified, s \in SlopeFields(Grid(MidW, MidH), {0, 5, 10})}
AreaSliders == [slope : {0, 5, 10, 30}, connectivity : {0, 1, 2, 8, 11}]

\* ------------------------------------------------------------- UI helpers
\* The display widgets (status label, results panel, legend, area label, map
\* layers) are written by the handlers and read by none of them: what a
\* handler does to every other variable is the same whether a widget is
\* observed or not. A widget that is not observed keeps its initial value.
Widgets == {"status", "results", "legend", "area", "layers"}
Show(widget, old, new) == IF widget \in observed THEN new ELSE old
SetStatus(value) == statusLabel' = Show("status", statusLabel, value)
SetResults(value) == resultsPanel' = Show("results", resultsPanel, value)
SetLegend(value) == legendPanel' = Show("legend", legendPanel, value)
SetArea(value) == areaPanelLabel' = Show("area", areaPanelLabel, value)
SetLayers(value) == mapLayers' = Show("layers", mapLayers, value)

Callback(kind, r) == [kind |-> kind, run |-> r]

\* panel.add(widget) / map.addLayer(..., name), one call per listed name.
Add(bag, names) == bag (+) SetToBag(names)
\* The loop of lines 780-789: every layer of that name is removed.
RemoveLayers(layers, name) == [l \in DOMAIN layers \ {name} |-> layers[l]]

\* A wrong handleError that forgets runButton.setDisabled(false).
handleErrorKeepsButton(message, detail) ==
    /\ SetStatus(ErrorStatus(message, detail))
    /\ UNCHANGED runButtonDisabled

\* handleError(message): message is the fixed text, detail the appended error.
handleError(message, detail) ==
    /\ SetStatus(ErrorStatus(message, detail))
    /\ runButtonDisabled' = FALSE

\* resetApp(clearAoi), all but the status label, which callers overwrite.
resetApp(clearAoi) ==
    /\ SetLayers(EmptyBag)
    /\ aoiDrawn' = IF clearAoi THEN FALSE ELSE aoiDrawn
    /\ SetResults(EmptyBag)
    /\ SetLegend(FALSE)
    /\ SetArea("Flooded Area: N/A")
    /\ runButtonDisabled' = FALSE

InFlight(r) == phase[r] \in {"bandCounts", "sampleSize", "area", "accuracy", "final"}

\* Slots whose run is over and has no callback left to fire.
FreeSlots == {r \in slots : ~InFlight(r) /\ \A c \in pending : c.run # r}
NewRun == CHOOSE r \in FreeSlots : \A q \in FreeSlots : r <= q

\* ------------------------------------------------------------------- Init
\* The app after construction (lines 162-437, 815-818).
Start ==
    /\ nepalImported \in BOOLEAN
    /\ aoiDrawn = FALSE
    /\ drawMode = FALSE
    /\ runButtonDisabled = FALSE
    /\ statusLabel = Status("Status: Ready. Please draw an Area of Interest (AOI).")
    /\ resultsPanel = EmptyBag
    /\ legendPanel = FALSE
    /\ areaPanelLabel = "Flooded Area: N/A"
    /\ mapLayers = EmptyBag
    /\ columnValue = NoValue
    /\ fetchButtonDisabled = FALSE
    /\ pending = {}
    /\ aoiLoads = 0
    /\ phase = [r \in Runs |-> "idle"]
    /\ env = [r \in Runs |-> NoEnv]
    /\ split = [r \in Runs |-> NoSplit]
    /\ issued = [r \in Runs |-> <<>>]
    /\ stages = [r \in Runs |-> <<>>]
    /\ lastError = ""

\* ---------------------------------------------------- AOI drawing handlers
\* Rectangle / Polygon buttons: clearAndDraw(shape).
clearAndDraw(shape) ==
    /\ resetApp(FALSE)
    /\ SetStatus(Status("Status: Ready. Please draw an Area of Interest (AOI)."))
    /\ drawMode' = TRUE
    /\ UNCHANGED <<cfgVars, rasterVars, nepalImported, colVars, pending, aoiLoads, runVars, lastError>>

ClearAndDraw == \E shape \in {"rectangle", "polygon"} : clearAndDraw(shape)

\* The user finishes a shape: drawingTools.onDraw -> drawingTools.stop().
OnDraw ==
    /\ drawMode
    /\ aoiDrawn' = TRUE
    /\ drawMode' = FALSE
    /\ UNCHANGED <<cfgVars, rasterVars, nepalImported, runButtonDisabled, statusLabel, resultsPanel,
                   legendPanel, areaPanelLabel, mapLayers, colVars, pending,
                   aoiLoads, runVars, lastError>>

\* Default AOI button: loadDefaultAoi().
loadDefaultAoi ==
    IF ~nepalImported
    THEN /\ handleError("The \"Nepal\" asset is not imported. Please add it to your Imports section.", "")
         /\ UNCHANGED <<cfgVars, rasterVars, nepalImported, aoiDrawn, drawMode, resultsPanel, legendPanel,
                        areaPanelLabel, mapLayers, colVars, pending, aoiLoads, runVars, lastError>>
    ELSE /\ aoiLoads < MaxAoiLoads
         /\ resetApp(TRUE)
         /\ drawMode' = FALSE
         /\ SetStatus(Status("Status: Loading default AOI (Melamchi)..."))
         /\ aoiLoads' = aoiLoads + 1
         /\ UNCHANGED <<cfgVars, rasterVars, nepalImported, colVars, pending, runVars, lastError>>

\* defaultAoiEE.evaluate callback. With an error geojson is undefined, and
\* geometries().add(undefined) either throws (the handler stops there) or
\* does not; without one the geometry is added.
DefaultAoiCallback ==
    /\ aoiLoads > 0
    /\ aoiLoads' = aoiLoads - 1
    /\ \E error \in BOOLEAN, hasCoordinates \in BOOLEAN, addThrows \in BOOLEAN :
         /\ error => ~hasCoordinates
         /\ addThrows => error
         /\ IF addThrows
            THEN /\ handleError(MelamchiNotFound, "")
                 /\ aoiDrawn' = FALSE
            ELSE /\ runButtonDisabled' = (IF error \/ ~hasCoordinates
                                          THEN FALSE ELSE runButtonDisabled)
                 /\ aoiDrawn' = TRUE
                 /\ SetStatus(Status("Status: Default AOI (Melamchi) loaded. Ready to run."))
    /\ UNCHANGED <<cfgVars, rasterVars, nepalImported, drawMode, resultsPanel, legendPanel, areaPanelLabel,
                   mapLayers, colVars, pending, runVars, lastError>>

\* ------------------------------------------------- column fetch handlers
\* Fetch Columns button: fetchAndPopulateColumns(). ee.FeatureCollection of a
\* string never throws on the client, so the catch branch is not reachable.
fetchAndPopulateColumns ==
    /\ ~fetchButtonDisabled
    /\ \E assetId \in AssetIds :
         IF assetId = ""
         THEN /\ handleError("Please enter a training data Asset ID first.", "")
              /\ fetchButtonDisabled' = FALSE
              /\ UNCHANGED pending
         ELSE /\ fetchButtonDisabled' = TRUE
              /\ SetStatus(Status("Status: Fetching columns..."))
              /\ pending' = pending \cup {Callback("propNames", 0)}
              /\ UNCHANGED runButtonDisabled
    /\ UNCHANGED <<cfgVars, rasterVars, nepalImported, aoiDrawn, drawMode, resultsPanel, legendPanel,
                   areaPanelLabel, mapLayers, columnValue, aoiLoads, runVars, lastError>>

\* propNames.evaluate callback. The items and the enabled state of the
\* dropdown are written here and read by no handler; a column the user picks
\* by hand is, to every handler, the same non-null value as the default.
PropNamesCallback ==
    /\ Callback("propNames", 0) \in pending
    /\ pending' = pending \ {Callback("propNames", 0)}
    /\ fetchButtonDisabled' = FALSE
    /\ \E error \in Errors \cup {""},
          names \in {{"system:index", DEFAULT_CLASS_COLUMN}, {"system:index", "label"}} :
         IF error # ""
         THEN /\ handleError("Could not fetch column names: ", error)
              /\ UNCHANGED columnValue
         ELSE LET userNames == names \ {"system:index"} IN
              /\ IF DEFAULT_CLASS_COLUMN \in userNames
                 THEN /\ columnValue' = DEFAULT_CLASS_COLUMN
                      /\ SetStatus(Status("Status: Columns fetched. Default class selected."))
                 ELSE /\ UNCHANGED columnValue
                      /\ SetStatus(Status("Status: Columns fetched. Select class property."))
              /\ UNCHANGED runButtonDisabled
    /\ UNCHANGED <<cfgVars, rasterVars, nepalImported, aoiDrawn, drawMode, resultsPanel, legendPanel,
                   areaPanelLabel, mapLayers, aoiLoads, runVars, lastError>>

\* ------------------------------------------------------- the run pipeline
Issue(r, requests) == issued' = [issued EXCEPT ![r] = issued[r] \o requests]
Reach(r, names) == stages' = [stages EXCEPT ![r] = stages[r] \o names]
Fired(r, kind, next) == pending' = (pending \ {Callback(kind, r)}) \cup next
Advance(r, to) == phase' = [phase EXCEPT ![r] = to]

\* The run of slot r is over: its closure (env, split) and its history are
\* dropped.
End(r, outcome) ==
    /\ phase' = [phase EXCEPT ![r] = outcome]
    /\ env' = [env EXCEPT ![r] = NoEnv]
    /\ split' = [split EXCEPT ![r] = NoSplit]
    /\ issued' = [issued EXCEPT ![r] = <<>>]
    /\ stages' = [stages EXCEPT ![r] = <<>>]

\* A run stops at an error result: handleError, and nothing more is issued.
Abort(r, kind, message, detail) ==
    /\ handleError(message, detail)
    /\ Fired(r, kind, {})
    /\ End(r, "error")

\* Run Analysis button: runAnalysis(), up to bandCounts.evaluate (568-616).
runAnalysis ==
    /\ ~runButtonDisabled
    /\ \E trainingAssetId \in AssetIds, entry \in entries :
         IF ~aoiDrawn
         THEN /\ handleError("Please draw an Area of Interest (AOI) first.", "")
              /\ UNCHANGED <<aoiDrawn, resultsPanel, legendPanel, areaPanelLabel,
                             mapLayers, pending, runVars>>
         ELSE IF trainingAssetId = "" \/ columnValue = NoValue
         THEN /\ handleError("Please provide a Training Asset and select a Class Column.", "")
              /\ SetResults(EmptyBag)
              /\ SetLegend(FALSE)
              /\ SetArea("Flooded Area: Processing...")
              /\ UNCHANGED <<aoiDrawn, mapLayers, pending, runVars>>
         ELSE /\ FreeSlots # {}
              /\ runButtonDisabled' = TRUE
              /\ SetResults(EmptyBag)
              /\ SetLegend(FALSE)
              /\ SetArea("Flooded Area: Processing...")
              /\ SetLayers(Add(mapLayers, {"Area of Interest"}))
              /\ aoiDrawn' = FALSE
              /\ SetStatus(Status("Status: Processing satellite data..."))
              /\ pending' = pending \cup {Callback("bandCounts", NewRun)}
              /\ phase' = [phase EXCEPT ![NewRun] = "bandCounts"]
              /\ issued' = [issued EXCEPT ![NewRun] = <<"bandCounts">>]
              /\ stages' = [stages EXCEPT ![NewRun] = <<"composites">>]
              /\ env' = [env EXCEPT ![NewRun] =
                            [NoEnv EXCEPT !.startDate = entry.startDate,
                                          !.endDate = entry.endDate,
                                          !.rfTrees = entry.rfTrees]]
              /\ UNCHANGED split
    /\ UNCHANGED <<cfgVars, rasterVars, nepalImported, drawMode, colVars, aoiLoads, lastError>>

\* bandCounts.evaluate callback (616-646): verifies the composites, builds
\* the stack and issues the sample count. s1size and s2size are the sizes of
\* the filtered collections the catalogue holds for the run's AOI and window;
\* a request that failed for another reason says nothing about them.
BandCountsCallback(r) ==
    /\ Callback("bandCounts", r) \in pending
    /\ \E failure \in Errors \cup {""}, s1size \in 0..1, s2size \in 0..1,
          rangeRefused \in BOOLEAN :
         LET s1_image == processS1_ARD(s1size)
             s2_image == processS2_ARD(s2size)
             emptyWindow == EmptyWindow(env[r].startDate, env[r].endDate)
             error == IF failure # "" THEN failure
                      ELSE IF ~Date(env[r].startDate).ok \/ ~Date(env[r].endDate).ok
                      THEN "Date"
                      ELSE IF rangeRefused THEN "DateRange"
                      ELSE IF ~s1_image.ok \/ ~s2_image.ok THEN "Image.rename"
                      ELSE ""
             counts == [s1 |-> Len(s1_image.bands), s2 |-> Len(s2_image.bands)]
         IN  /\ rangeRefused => emptyWindow
             /\ (emptyWindow /\ ~rangeRefused) => (s1size = 0 /\ s2size = 0)
             /\ lastError' = error
             /\ IF error # ""
                THEN Abort(r, "bandCounts", "Could not verify input data: ", error)
                ELSE IF counts.s1 = 0 \/ counts.s2 = 0
                THEN Abort(r, "bandCounts",
                           "No Sentinel-1 or Sentinel-2 images found for the criteria.",
                           "")
                ELSE /\ SetStatus(Status("Status: Sampling training data..."))
                     /\ Fired(r, "bandCounts", {Callback("sampleSize", r)})
                     /\ Advance(r, "sampleSize")
                     /\ env' = [env EXCEPT ![r].s1size = s1size, ![r].s2size = s2size]
                     /\ Issue(r, <<"sampleSize">>)
                     /\ Reach(r, <<"stack", "sampleRegions">>)
                     /\ UNCHANGED <<runButtonDisabled, split>>
    /\ UNCHANGED <<cfgVars, rasterVars, nepalImported, aoiDrawn, drawMode, resultsPanel, legendPanel,
                   areaPanelLabel, mapLayers, colVars, aoiLoads>>

\* Lines 652-662 and 693-694: one randomColumn, the two filters on it, the
\* set the classifier is trained on and the set the error matrix is built from.
SplitSamples(sampled) ==
    LET sampledWithRandom == randomColumn(sampled, DefaultSeed)
        trainingSet == trainingSetOf(sampledWithRandom)
        validationSet == validationSetOf(sampledWithRandom)
    IN  [sampled |-> sampled, random |-> sampledWithRandom, trainingSet |-> trainingSet,
         validationSet |-> validationSet,
         trainedOn |-> trainingSet, matrixFrom |-> validationSet]

\* A wrong test that looks at the error only.
ErrorOnly(error, numSampledPoints) == error # ""
\* A wrong callback that tests nothing before it goes on.
NoTest(error, numSampledPoints) == FALSE

\* The test of line 647.
NoValidTrainingData(error, numSampledPoints) == error # "" \/ numSampledPoints = 0

\* allSampledPoints.size().evaluate callback (646-697) and the synchronous
\* part of displayResults it calls (704-726). sampled are the labeled points
\* that fall on unmasked pixels of the stack.
SampleSizeCallback(r) ==
    /\ Callback("sampleSize", r) \in pending
    /\ \E failure \in Errors \cup {""}, sampled \in SUBSET SampleIds :
         LET stack == stackedImage(env[r].s1size, env[r].s2size)
             error == IF failure # "" THEN failure
                      ELSE IF ~stack.ok THEN "Image.select"
                      ELSE ""
             numSampledPoints == Cardinality(sampled)
         IN  /\ error # "" => sampled = {}
             /\ lastError' = error
             /\ IF NoValidTrainingData(error, numSampledPoints)
                THEN /\ Abort(r, "sampleSize", NoTrainingData, "")
                     /\ UNCHANGED <<resultsPanel, legendPanel, mapLayers>>
                ELSE /\ split' = [split EXCEPT ![r] = SplitSamples(sampled)]
                     /\ SetLayers(Add(mapLayers, {"Sentinel-2 RGB",
                                                  "Sentinel-1 False Color",
                                                  "Flooded Area"}))
                     /\ SetLegend(TRUE)
                     /\ SetResults(Add(EmptyBag, {"Analysis Results"}))
                     /\ SetStatus(Status("Status: Calculating area..."))
                     /\ Fired(r, "sampleSize", {Callback("areaMetrics", r)})
                     /\ Advance(r, "area")
                     /\ Issue(r, <<"areaMetrics">>)
                     /\ Reach(r, <<"randomColumn", "train", "classify", "postFilter",
                                   "addLayers", "errorMatrix", "displayResults">>)
                     /\ UNCHANGED <<runButtonDisabled, env>>
    /\ UNCHANGED <<cfgVars, rasterVars, nepalImported, aoiDrawn, drawMode, areaPanelLabel, colVars, aoiLoads>>

\* areaMetrics.evaluate callback (726-741). The two getInfo() calls are
\* synchronous remote requests; one that fails throws out of the callback.
AreaMetricsCallback(r) ==
    /\ Callback("areaMetrics", r) \in pending
    /\ \E failure \in Errors \cup {""}, treesError \in TreesErrors(env[r].rfTrees),
          getInfoThrows \in BOOLEAN :
         LET error == IF failure # "" THEN failure ELSE treesError IN
         /\ error # "" => ~getInfoThrows
         /\ lastError' = error
         /\ IF error # ""
            THEN /\ Abort(r, "areaMetrics", "Could not calculate area. ", error)
                 /\ UNCHANGED <<resultsPanel, areaPanelLabel>>
            ELSE IF getInfoThrows
            THEN /\ Fired(r, "areaMetrics", {})
                 /\ End(r, "crashed")
                 /\ UNCHANGED <<runButtonDisabled, statusLabel, resultsPanel,
                                areaPanelLabel>>
            ELSE /\ SetResults(Add(resultsPanel, {"AOI Area", "Mapped Flood Area"}))
                 /\ SetArea("Flooded Area: ha")
                 /\ SetStatus(Status("Status: Finalizing results..."))
                 /\ Fired(r, "areaMetrics", {Callback("accuracy", r)})
                 /\ Advance(r, "accuracy")
                 /\ Issue(r, <<"getInfo", "getInfo", "accuracy">>)
                 /\ Reach(r, <<"area">>)
                 /\ UNCHANGED <<runButtonDisabled, env, split>>
    /\ UNCHANGED <<cfgVars, rasterVars, nepalImported, aoiDrawn, drawMode, legendPanel, mapLayers, colVars,
                   aoiLoads>>

\* confusionMatrix.accuracy().evaluate callback (741-765): issues the kappa
\* evaluation and the download URL request together.
AccuracyCallback(r) ==
    /\ Callback("accuracy", r) \in pending
    /\ \E error \in Errors \cup {""} :
         /\ lastError' = error
         /\ IF error # ""
            THEN /\ Abort(r, "accuracy", "Could not compute accuracy metrics.", "")
                 /\ UNCHANGED resultsPanel
            ELSE /\ SetResults(Add(resultsPanel, {"Accuracy Assessment",
                                              "Overall Accuracy"}))
                 /\ Fired(r, "accuracy", {Callback("kappa", r),
                                           Callback("downloadURL", r)})
                 /\ Advance(r, "final")
                 /\ Issue(r, <<"kappa", "downloadURL">>)
                 /\ Reach(r, <<"accuracy", "export">>)
                 /\ UNCHANGED <<runButtonDisabled, statusLabel, env, split>>
    /\ UNCHANGED <<cfgVars, rasterVars, nepalImported, aoiDrawn, drawMode, legendPanel, areaPanelLabel,
                   mapLayers, colVars, aoiLoads>>

\* confusionMatrix.kappa().evaluate callback (751-757).
KappaCallback(r) ==
    /\ Callback("kappa", r) \in pending
    /\ Fired(r, "kappa", {})
    /\ \E kappaError \in Errors \cup {""} :
         /\ lastError' = kappaError
         /\ SetResults(IF kappaError = ""
                       THEN Add(resultsPanel, {"Kappa Coefficient"})
                       ELSE resultsPanel)
    /\ UNCHANGED <<cfgVars, rasterVars, nepalImported, aoiDrawn, drawMode, runButtonDisabled, statusLabel,
                   legendPanel, areaPanelLabel, mapLayers, colVars, aoiLoads, runVars>>

\* A wrong download callback that shows nothing when the request failed.
DownloadEntrySilent(failure) ==
    IF failure # "" THEN {} ELSE {"Download Flood Area Map (GeoTIFF)"}

\* The label the getDownloadURL callback adds (766-776).
DownloadEntry(failure) ==
    IF failure # "" THEN {"Download Error"} ELSE {"Download Flood Area Map (GeoTIFF)"}

\* getDownloadURL callback (765-797).
DownloadCallback(r) ==
    /\ Callback("downloadURL", r) \in pending
    /\ Fired(r, "downloadURL", {})
    /\ \E failure \in Errors \cup {""} :
         /\ lastError' = failure
         /\ SetResults(Add(resultsPanel, DownloadEntry(failure)))
    /\ SetStatus(Status("Status: Complete."))
    /\ runButtonDisabled' = FALSE
    /\ SetLayers(Add(RemoveLayers(mapLayers, "Area of Interest"), {"Final AOI"}))
    /\ End(r, "complete")
    /\ UNCHANGED <<cfgVars, rasterVars, nepalImported, aoiDrawn, drawMode, legendPanel, areaPanelLabel,
                   colVars, aoiLoads>>

\* ------------------------------------------------------------------- Spec
Next ==
    \/ ClearAndDraw
    \/ OnDraw
    \/ loadDefaultAoi
    \/ DefaultAoiCallback
    \/ fetchAndPopulateColumns
    \/ PropNamesCallback
    \/ runAnalysis
    \/ \E r \in Runs : BandCountsCallback(r)
    \/ \E r \in Runs : SampleSizeCallback(r)
    \/ \E r \in Runs : AreaMetricsCallback(r)
    \/ \E r \in Runs : AccuracyCallback(r)
    \/ \E r \in Runs : KappaCallback(r)
    \/ \E r \in Runs : DownloadCallback(r)

NoRasters ==
    /\ scene = NoScene
    /\ sliders = [slope |-> DEFAULT_SLOPE_THRESHOLD,
                  connectivity |-> DEFAULT_CONNECTIVITY_THRESHOLD]
    /\ result = NoResult
    /\ cloud = NoCloud
    /\ speckle = NoSpeckle
    /\ areas = NoAreas

\* Every widget observed, one run at a time.
Init == Start /\ observed = Widgets /\ slots = {1} /\ entries = {DefaultEntry} /\ NoRasters
Spec == Init /\ [][Next]_vars

\* The status label observed, MaxRuns runs at a time.
InitRuns ==
    Start /\ observed = {"status"} /\ slots = Runs /\ entries = {DefaultEntry} /\ NoRasters
RunsSpec == InitRuns /\ [][Next]_vars

\* The status label observed, one run at a time, the date and tree boxes
\* holding any of the texts.
InitInputs ==
    Start /\ observed = {"status"} /\ slots = {1} /\ entries = AllEntries /\ NoRasters
InputSpec == InitInputs /\ [][Next]_vars

\* One run at a time with the status label observed, every issued evaluate
\* and getDownloadURL callback firing eventually.
CallbacksFire ==
    /\ WF_vars(DefaultAoiCallback)
    /\ WF_vars(PropNamesCallback)
    /\ \A r \in Runs :
          /\ WF_vars(BandCountsCallback(r))
          /\ WF_vars(SampleSizeCallback(r))
          /\ WF_vars(AreaMetricsCallback(r))
          /\ WF_vars(AccuracyCallback(r))
          /\ WF_vars(KappaCallback(r))
          /\ WF_vars(DownloadCallback(r))
InitLive ==
    Start /\ observed = {"status"} /\ slots = {1} /\ entries = {DefaultEntry} /\ NoRasters
LiveSpec == InitLive /\ [][Next]_vars /\ CallbacksFire

\* The post-filter alone: a classified raster, a slope raster and the two
\* slider values, and the step of lines 667-683 applied to them.
InitFilter ==
    /\ Start /\ nepalImported /\ observed = {} /\ slots = {} /\ entries = {}
    /\ scene \in Scenes
    /\ sliders \in [slope : SlopeThresholds, connectivity : ConnectivityThresholds]
    /\ result = NoResult
    /\ cloud = NoCloud
    /\ speckle = NoSpeckle
    /\ areas = NoAreas

ApplyPostFilter ==
    /\ ~result.done
    /\ result' = PostFilter(scene.classified, scene.slope, sliders.slope,
                            sliders.connectivity)
    /\ UNCHANGED <<appVars, cfgVars, scene, sliders, cloud, speckle, areas>>

FilterNext == ApplyPostFilter
FilterSpec == InitFilter /\ [][FilterNext]_vars

\* The cloud mask alone: the scenes of one pixel, .map(maskS2srClouds) and
\* .median() (143-152) applied to them.
InitMask ==
    /\ Start /\ nepalImported /\ observed = {} /\ slots = {} /\ entries = {}
    /\ scene = NoScene
    /\ sliders = [slope |-> DEFAULT_SLOPE_THRESHOLD,
                  connectivity |-> DEFAULT_CONNECTIVITY_THRESHOLD]
    /\ result = NoResult
    /\ speckle = NoSpeckle
    /\ areas = NoAreas
    /\ \E images \in SceneStacks : cloud = [NoCloud EXCEPT !.stage = "scenes", !.images = images]

MapMaskS2srClouds ==
    /\ cloud.stage = "scenes"
    /\ cloud' = [cloud EXCEPT !.stage = "masked",
                              !.masked = [i \in DOMAIN cloud.images |->
                                             maskS2srClouds(cloud.images[i])]]
    /\ UNCHANGED <<appVars, cfgVars, scene, sliders, result, speckle, areas>>

MedianComposite ==
    /\ cloud.stage = "masked"
    /\ cloud' = [cloud EXCEPT !.stage = "median", !.composite = median(cloud.masked)]
    /\ UNCHANGED <<appVars, cfgVars, scene, sliders, result, speckle, areas>>

MaskNext == MapMaskS2srClouds \/ MedianComposite
MaskSpec == InitMask /\ [][MaskNext]_vars

\* The speckle filter alone: a 7x7 window of one polarization band and
\* refinedLee (72-84) applied at its centre.
InitLee ==
    /\ Start /\ nepalImported /\ observed = {} /\ slots = {} /\ entries = {}
    /\ scene = NoScene
    /\ sliders = [slope |-> DEFAULT_SLOPE_THRESHOLD,
                  connectivity |-> DEFAULT_CONNECTIVITY_THRESHOLD]
    /\ result = NoResult
    /\ cloud = NoCloud
    /\ areas = NoAreas
    /\ \E band \in {"VV", "VH"}, window \in Windows :
          speckle = [NoSpeckle EXCEPT !.stage = "window", !.img = Image(<<band>>),
                                      !.window = window]

ApplyRefinedLee ==
    /\ speckle.stage = "window"
    /\ speckle' = [speckle EXCEPT !.stage = "filtered",
                                  !.divisors = refinedLeeDivisors(speckle.window),
                                  !.new_pixel = refinedLee(speckle.window),
                                  !.out = RefinedLeeBands(speckle.img)]
    /\ UNCHANGED <<appVars, cfgVars, scene, sliders, result, cloud, areas>>

LeeNext == ApplyRefinedLee
LeeSpec == InitLee /\ [][LeeNext]_vars

\* The post-filter followed by displayResults: its synchronous part and its
\* areaMetrics and accuracy callbacks, each a step of its own.
InitAreas ==
    /\ Start /\ nepalImported /\ observed = {} /\ slots = {} /\ entries = {}
    /\ scene \in AreaScenes
    /\ sliders \in AreaSliders
    /\ result = NoResult
    /\ cloud = NoCloud
    /\ speckle = NoSpeckle
    /\ \E sqm \in PixelAreas : areas = [NoAreas EXCEPT !.pixelArea = sqm]

\* displayResults up to areaMetrics.evaluate (704-726).
DisplayResultsCall ==
    /\ result.done /\ areas.stage = "none"
    /\ areas' = [areas EXCEPT
                    !.stage = "areaMetrics",
                    !.floodAreaImage = floodAreaImage(result.finalClassification,
                                                      areas.pixelArea)]
    /\ UNCHANGED <<appVars, cfgVars, scene, sliders, result, cloud, speckle>>

\* areaMetrics.evaluate callback (726-741): an error ends the run, a getInfo()
\* that throws leaves it where it is, else the figures are shown.
AreaMetricsResult ==
    /\ areas.stage = "areaMetrics"
    /\ \E outcome \in {"ok", "error", "throws"} :
          LET floodArea == reduceRegionSum(areas.floodAreaImage)
              aoiArea == areas.pixelArea * Cardinality(DOMAIN result.finalClassification)
          IN  areas' = IF outcome = "error" THEN [areas EXCEPT !.stage = "error"]
                       ELSE IF outcome = "throws" THEN [areas EXCEPT !.stage = "crashed"]
                       ELSE [areas EXCEPT
                               !.stage = "accuracy",
                               !.shown = TRUE,
                               !.floodArea = floodArea,
                               !.aoiArea = aoiArea,
                               !.floodHa = toFixed2(Frac(floodArea, SQM_PER_HECTARE)),
                               !.aoiHa = toFixed2(Frac(aoiArea, SQM_PER_HECTARE))]
    /\ UNCHANGED <<appVars, cfgVars, scene, sliders, result, cloud, speckle>>

\* confusionMatrix.accuracy().evaluate callback (741-765): an error ends the
\* run, else the download layer is built and its URL requested.
AccuracyResult ==
    /\ areas.stage = "accuracy"
    /\ \E error \in BOOLEAN :
          areas' = IF error THEN [areas EXCEPT !.stage = "error"]
                   ELSE [areas EXCEPT
                           !.stage = "downloadURL",
                           !.floodDownloadLayer =
                               floodDownloadLayer(result.finalClassification)]
    /\ UNCHANGED <<appVars, cfgVars, scene, sliders, result, cloud, speckle>>

AreaNext == ApplyPostFilter \/ DisplayResultsCall \/ AreaMetricsResult \/ AccuracyResult
AreaSpec == InitAreas /\ [][AreaNext]_vars

\* ---------------------------------------------------------------- claims
Range(seq) == {seq[i] : i \in DOMAIN seq}
RunsInFlight == {r \in Runs : InFlight(r)}
\* The callback of that kind of run r fires in this step.
CallbackFires(kind, r) ==
    Callback(kind, r) \in pending /\ Callback(kind, r) \notin pending'
ErrorKinds == {"bandCounts", "sampleSize", "areaMetrics", "accuracy"}

\* C1: at most one run is in flight at any time: while a run's callbacks are
\* outstanding no second run can be started.
C1_SingleRunInFlight == Cardinality(RunsInFlight) <= 1

\* C2: when a band-count, sample-count, area or accuracy result comes back
\* with an error, the run is over in that step: the status label shows an
\* error, the Run button is enabled, no request of the run is left pending;
\* and a run that ended in error never has a request pending afterwards.
C2_ErrorEndsRun ==
    /\ [](\A r \in Runs : phase[r] = "error" => \A c \in pending : c.run # r)
    /\ [][\A r \in Runs, kind \in ErrorKinds :
            CallbackFires(kind, r) /\ lastError' # ""
            => /\ statusLabel'.kind = "Error"
               /\ ~runButtonDisabled'
               /\ phase'[r] = "error"
               /\ \A c \in pending' : c.run # r
               /\ issued'[r] = <<>> /\ stages'[r] = <<>>]_vars
C2_Witness ==
    \E r \in Runs :
        /\ phase[r] = "error"
        /\ lastError = "quota"
        /\ statusLabel = ErrorStatus("Could not calculate area. ", "quota")
        /\ ~runButtonDisabled

\* C3: a Run click rejected for a missing input (no AOI, no asset, no class
\* column) reports the error before any remote request and changes nothing
\* else: results panel, legend, area label, map layers, AOI and Run button
\* are as they were.
C3_InputErrorChangesNothing ==
    [][runAnalysis /\ statusLabel'.kind = "Error"
       => /\ pending' = pending
          /\ UNCHANGED <<resultsPanel, legendPanel, areaPanelLabel, mapLayers,
                         aoiDrawn, runButtonDisabled, runVars>>]_vars

\* C4: a run whose filtered radar or optical collection is empty never
\* reaches sampling: every run that reached sampleRegions had both non-empty.
C4_EmptyCollectionNeverSampled ==
    \A r \in Runs :
        "sampleRegions" \in Range(stages[r])
        => env[r].s1size > 0 /\ env[r].s2size > 0

\* C5: when the sample count comes back with no sampled point, the run ends
\* in that step with an error on the status label: nothing is trained or
\* classified and displayResults is not called.
C5_ZeroSamplesAbort ==
    [][\A r \in Runs :
            CallbackFires("sampleSize", r) /\ split'[r].sampled = {}
            => /\ statusLabel'.kind = "Error"
               /\ phase'[r] = "error"
               /\ Range(stages'[r]) \cap {"randomColumn", "train", "classify",
                                          "displayResults"} = {}
               /\ \A c \in pending' : c.run # r]_vars
C5_Witness ==
    \E r \in Runs :
        /\ phase[r] = "error"
        /\ lastError = ""
        /\ statusLabel = ErrorStatus(NoTrainingData, "")
        /\ ~runButtonDisabled

\* C6: whenever a run reaches training, the set it trains on (random < 0.7)
\* is not empty.
C6_TrainingSetNonEmpty ==
    \A r \in Runs : "train" \in Range(stages[r]) => split[r].trainedOn # {}

\* C7: the split of a run is a partition of its sampled points made from one
\* random assignment: every sampled point is either trained on (random < 0.7)
\* or used for the error matrix (random >= 0.7), never both and never neither.
C7_SplitIsPartition ==
    \A r \in Runs :
        "randomColumn" \in Range(stages[r])
        => LET s == split[r]
               random == randomColumn(s.sampled, DefaultSeed)
           IN  /\ s.trainedOn \cup s.matrixFrom = s.sampled
               /\ s.trainedOn \cap s.matrixFrom = {}
               /\ s.trainedOn = {id \in s.sampled : random[id] < DEFAULT_TRAINING_SPLIT}
               /\ s.matrixFrom = s.sampled \ s.trainedOn
C7_Witness ==
    \E r \in Runs :
        /\ "errorMatrix" \in Range(stages[r])
        /\ split[r].sampled = SampleIds
        /\ split[r].trainedOn # {}
        /\ split[r].matrixFrom # {}

\* The post-filter has run on the scene; the names used by C8, C9 and C10.
InMask(img, p) == img[p].m /\ img[p].v = 1
FloodMask == {p \in DOMAIN result.floodLayer : InMask(result.floodLayer, p)}
ClassifiedFlood == {p \in DOMAIN scene.classified : InMask(scene.classified, p)}
\* Size of the 8-connected patch of classified-flood pixels each pixel is in,
\* not capped.
FloodPatchSizes ==
    PatchSizes(Eq(scene.classified, 1), Valid(scene.classified), TRUE, [q \in {} |-> 0])
PassesPatch(sizes, p) == sliders.connectivity = 0 \/ sizes[p] >= sliders.connectivity
PassesSlope(p) == scene.slope[p].v <= sliders.slope

\* C8: for every pixel and every pair of slider values, the final flood mask
\* has the pixel iff it was classified 1, its patch of classified-flood pixels
\* (measured before any slope masking) passes the patch filter, and its slope
\* passes the slope filter; the slope mask covers the whole result, flooded
\* or not.
C8_FinalMask ==
    result.done =>
        LET sizes == FloodPatchSizes
        IN  \A p \in DOMAIN scene.classified :
                /\ InMask(result.floodLayer, p)
                   <=> /\ InMask(scene.classified, p)
                       /\ PassesPatch(sizes, p)
                       /\ PassesSlope(p)
                /\ result.finalClassification[p].m
                   <=> scene.classified[p].m /\ PassesSlope(p)
C8_Witness ==
    /\ result.done
    /\ scene = [classified |-> BlobAndSpeck(MidW, MidH, 10),
                slope |-> Ramp(Grid(MidW, MidH))]
    /\ sliders = [slope |-> 5, connectivity |-> 8]
    /\ FloodMask = {<<1, 1>>, <<2, 1>>, <<1, 2>>, <<2, 2>>}

\* C9: no pixel steeper than the slope threshold is in the final flood mask
\* (nor valid in the final classification), whatever its class and patch: the
\* 20-pixel blob on a 10-degree slope leaves nothing at threshold 5; a pixel
\* whose slope equals the threshold is in the mask iff the patch filter left
\* it flooded.
C9_SteepNeverFlooded ==
    result.done =>
        /\ \A p \in DOMAIN scene.slope :
              /\ scene.slope[p].v > sliders.slope
                 => ~InMask(result.floodLayer, p) /\ ~result.finalClassification[p].m
              /\ scene.slope[p].v = sliders.slope
                 => (InMask(result.floodLayer, p) <=> InMask(result.patchFiltered, p))
        /\ (/\ scene.classified = Blob(MidW, MidH, 20)
            /\ scene.slope = Uniform(Grid(MidW, MidH), 10)
            /\ sliders.slope = 5) => FloodMask = {}
C9_Witness ==
    /\ result.done
    /\ scene = [classified |-> Blob(MidW, MidH, 20),
                slope |-> Uniform(Grid(MidW, MidH), 10)]
    /\ sliders = [slope |-> 5, connectivity |-> 8]
    /\ FloodMask = {}
    /\ \A p \in Grid(MidW, MidH) : InMask(result.patchFiltered, p)

\* C10: after the patch filter a pixel is flooded iff it was classified
\* flooded and the threshold is 0 or its 8-connected patch of flooded pixels,
\* counted without the cap, has at least threshold pixels. At threshold 0
\* every classified-flood pixel stays; at threshold 8 the single pixel goes
\* and the 10-pixel blob stays whole; no other pixel becomes flooded.
C10_PatchRule ==
    result.done =>
        LET sizes == FloodPatchSizes
            kept == {p \in DOMAIN result.patchFiltered : InMask(result.patchFiltered, p)}
        IN  /\ kept = {p \in ClassifiedFlood : PassesPatch(sizes, p)}
            /\ sliders.connectivity = 0 => kept = ClassifiedFlood
            /\ (scene.classified = Blob(MidW, MidH, 1) /\ sliders.connectivity = 8)
               => kept = {}
            /\ (scene.classified = Blob(MidW, MidH, 10) /\ sliders.connectivity = 8)
               => kept = {p \in Grid(MidW, MidH) : p[2] <= 2}
            /\ \A p \in DOMAIN scene.classified :
                  ~InMask(scene.classified, p)
                  => result.patchFiltered[p] = scene.classified[p]
C10_Witness ==
    /\ result.done
    /\ scene.classified = Blob(BigW, BigH, 101)
    /\ sliders.connectivity = 50
    /\ Cardinality({p \in DOMAIN result.patchFiltered :
                        InMask(result.patchFiltered, p)}) = 101

\* C11: every failing asynchronous stage of a run is reported through the
\* error status: when the kappa evaluation comes back with an error, the
\* status label shows an error (and so the run does not end 'Complete').
C11_KappaErrorReported ==
    [][\A r \in Runs :
            CallbackFires("kappa", r) /\ lastError' # ""
            => statusLabel'.kind = "Error"]_vars

\* C12: when the download request fails, the callback adds a 'Download Error'
\* entry to the results panel and nothing else is lost: the status becomes
\* 'Status: Complete.' (not an error), the Run button is enabled, and the
\* entries already in the results panel, the area label, the legend and the
\* result layers on the map are left as they were.
C12_DownloadFailureIsolated ==
    [][\A r \in Runs :
            CallbackFires("downloadURL", r) /\ lastError' # ""
            => /\ statusLabel' = Status("Status: Complete.")
               /\ ~runButtonDisabled'
               /\ resultsPanel' = resultsPanel (+) SetToBag({"Download Error"})
               /\ areaPanelLabel' = areaPanelLabel
               /\ legendPanel' = legendPanel
               /\ \A name \in {"Flooded Area", "Sentinel-2 RGB", "Sentinel-1 False Color"} :
                     CopiesIn(name, mapLayers') = CopiesIn(name, mapLayers)]_vars
C12_Witness ==
    /\ lastError = "quota"
    /\ statusLabel = Status("Status: Complete.")
    /\ ~runButtonDisabled
    /\ \A entry \in {"AOI Area", "Mapped Flood Area", "Overall Accuracy", "Download Error"} :
          BagIn(entry, resultsPanel)
    /\ BagIn("Flooded Area", mapLayers)
    /\ areaPanelLabel = "Flooded Area: ha"

\* C13: when the download callback sets 'Status: Complete.', the results
\* panel already holds the four numeric results of the run: AOI area, mapped
\* flood area, overall accuracy and kappa coefficient.
C13_CompleteHasFourResults ==
    [][\A r \in Runs :
            CallbackFires("downloadURL", r)
            => \A entry \in {"AOI Area", "Mapped Flood Area", "Overall Accuracy",
                             "Kappa Coefficient"} :
                  BagIn(entry, resultsPanel')]_vars

\* The remote requests and the stages of a run, in the order of the code.
RequestOrder ==
    <<"bandCounts", "sampleSize", "areaMetrics", "getInfo", "getInfo", "accuracy",
      "kappa", "downloadURL">>
StageOrder ==
    <<"composites", "stack", "sampleRegions", "randomColumn", "train", "classify",
      "postFilter", "addLayers", "errorMatrix", "displayResults", "area", "accuracy",
      "export">>
IsPrefix(s, t) == Len(s) <= Len(t) /\ \A i \in 1..Len(s) : s[i] = t[i]

\* C14: the stages and the requests of a run happen in the one fixed order;
\* a run goes on to further stages only in a step in which one of its
\* callbacks fires with no error; displayResults is entered only after the
\* band-count and sample-count requests were issued and answered; and a run
\* becomes complete only after its accuracy result was consumed.
C14_StagesInOrder ==
    /\ [](\A r \in Runs :
            /\ IsPrefix(issued[r], RequestOrder)
            /\ IsPrefix(stages[r], StageOrder)
            /\ "displayResults" \in Range(stages[r])
               => /\ {"bandCounts", "sampleSize"} \subseteq Range(issued[r])
                  /\ Callback("bandCounts", r) \notin pending
                  /\ Callback("sampleSize", r) \notin pending)
    /\ [][\A r \in Runs :
            /\ (stages[r] # <<>> /\ Len(stages'[r]) > Len(stages[r]))
               => /\ lastError' = ""
                  /\ \E kind \in ErrorKinds : CallbackFires(kind, r)
            /\ (phase[r] # "complete" /\ phase'[r] = "complete")
               => /\ phase[r] = "final"
                  /\ "accuracy" \in Range(stages[r])
                  /\ CallbackFires("downloadURL", r)]_vars
C14_Witness ==
    \E r \in Runs :
        /\ phase[r] = "final"
        /\ stages[r] = StageOrder
        /\ issued[r] = RequestOrder

\* C15: the status written for a failed band-count, sample-count, area or
\* accuracy evaluation carries the error the evaluation returned, and a failed
\* sample-count evaluation is not reported as 'No valid training data found'.
C15_ErrorMessageCarriesCause ==
    [][\A r \in Runs, kind \in ErrorKinds :
            CallbackFires(kind, r) /\ lastError' # ""
            => /\ statusLabel'.kind = "Error"
               /\ statusLabel'.detail = lastError'
               /\ statusLabel'.text # NoTrainingData]_vars

\* ---------------------------------------------------------------- C16
PositiveInteger(rfTrees) ==
    LET trees == NumberParse(rfTrees)
    IN  trees.ok /\ trees.d = 1 /\ trees.n >= 1

\* C16: the classifier is never trained with a tree count that is not a
\* positive integer: whenever a run has reached the training stage, the text
\* it read from the tree box parses to an integer of at least 1.
C16_TreesPositiveInteger ==
    \A r \in Runs : "train" \in Range(stages[r]) => PositiveInteger(env[r].rfTrees)

\* ---------------------------------------------------------------- C17
ValidWindow(startDate, endDate) ==
    Date(startDate).ok /\ Date(endDate).ok /\ Date(startDate).day < Date(endDate).day

\* C17: a run whose start or end date does not parse, or whose start is not
\* strictly before its end, is rejected before anything is changed or
\* requested: no run builds its composites, and no remote evaluation is
\* issued, for such a window.
C17_WindowValidated ==
    \A r \in Runs :
        ("composites" \in Range(stages[r]) \/ issued[r] # <<>>)
            => ValidWindow(env[r].startDate, env[r].endDate)

\* ---------------------------------------------------------------- C18
\* Bits 10 and 11 of a QA60 value are both clear.
CloudFree(qa) == (qa \div 1024) % 4 = 0
KeptScenes == {i \in DOMAIN cloud.images : cloud.images[i].m /\ CloudFree(cloud.images[i].QA60)}

\* C18: maskS2srClouds keeps an observation exactly when the scene has data
\* and bits 10 and 11 of its QA60 value are both clear, for every QA60 value,
\* the kept value being the digital number over 10000; the median composite is
\* the median of the kept observations alone, and has no data when none is kept.
C18_CloudMask ==
    /\ cloud.stage \in {"masked", "median"} =>
          \A i \in DOMAIN cloud.images :
              /\ cloud.masked[i].m <=> i \in KeptScenes
              /\ cloud.masked[i].n = cloud.images[i].B
              /\ cloud.masked[i].d = 10000
    /\ cloud.stage = "median" =>
          /\ cloud.composite.m <=> KeptScenes # {}
          /\ cloud.composite.m =>
                LET kept == SelectSeq(cloud.images,
                                      LAMBDA image : image.m /\ CloudFree(image.QA60))
                IN  cloud.composite =
                        MedianOf([i \in DOMAIN kept |-> kept[i].B], 10000)

\* Three scenes, the brightest one under cirrus only: the composite is the
\* mean of the two others.
C18_Witness ==
    /\ cloud.stage = "median"
    /\ Len(cloud.images) = 3
    /\ \E i \in DOMAIN cloud.images :
          /\ cloud.images[i].QA60 = 2048 /\ cloud.images[i].B = 9000
          /\ \A j \in DOMAIN cloud.images \ {i} :
                cloud.images[j].QA60 = 0 /\ cloud.images[j].B < 9000
    /\ cloud.composite.m /\ cloud.composite.d = 20000

\* ---------------------------------------------------------------- C19
\* The filter as stated: b = max(0, 1 - mean^2 / variance), w = b / (1 + b),
\* output = centre * w + mean * (1 - w).
StatedLee(window) ==
    LET mean == NeighborhoodMean(window)
        variance == NeighborhoodVariance(window)
        b == Max(Const(0), Subtract(Const(1), Divide(Multiply(mean, mean), variance)))
        w == Divide(b, Plus(Const(1), b))
    IN  Plus(Multiply(Const(window[KernelCentre]), w),
             Multiply(mean, Subtract(Const(1), w)))

\* C19: refinedLee returns centre * w + mean * (1 - w) with w = b / (1 + b)
\* and b = max(0, 1 - mean^2 / variance), so that a window of low texture
\* yields its mean and a window of high texture stays near its centre.
C19_LeeFormula ==
    speckle.stage = "filtered" => speckle.new_pixel = StatedLee(speckle.window)

\* ---------------------------------------------------------------- C20
\* C20: where the whole 7x7 neighbourhood holds one value v, refinedLee
\* returns exactly v, v = 0 included, where the value is defined and no
\* division by zero takes place; the output band has the name of the input
\* band.
C20_UniformPassThrough ==
    speckle.stage = "filtered" =>
        \A v \in Values :
            speckle.window = UniformWindow(v)
                => /\ speckle.new_pixel = Const(v)
                   /\ \A i \in DOMAIN speckle.divisors : speckle.divisors[i].n # 0
                   /\ speckle.out.ok /\ speckle.out.bands = speckle.img.bands

\* ---------------------------------------------------------------- C22
\* The Run button is enabled and the status is 'Status: Complete.' or an
\* error message.
Settled ==
    /\ ~runButtonDisabled
    /\ statusLabel = Status("Status: Complete.") \/ statusLabel.kind = "Error"

\* C22: every run that has issued its first evaluation eventually ends with
\* the Run button enabled and the status 'Status: Complete.' or 'Error: ...',
\* given that every issued callback eventually fires.
C22_RunSettles == \A r \in Runs : InFlight(r) ~> Settled

\* ---------------------------------------------------------------- C23
\* Run r has shown its results (displayResults wrote the panel header) and the
\* panel was cleared since: resetApp ran, or a later run started.
Superseded(r) ==
    /\ phase[r] \in {"area", "accuracy", "final"}
    /\ ~BagIn("Analysis Results", resultsPanel)

\* C23: once the app was reset or a later run started, no callback of the
\* earlier run changes the results panel, the flooded-area label, the map
\* layers, the status or the Run button.
C23_NoStaleUpdates ==
    [][\A r \in Runs, kind \in {"areaMetrics", "accuracy", "kappa", "downloadURL"} :
            CallbackFires(kind, r) /\ Superseded(r)
            => /\ resultsPanel' = resultsPanel
               /\ areaPanelLabel' = areaPanelLabel
               /\ mapLayers' = mapLayers
               /\ statusLabel' = statusLabel
               /\ runButtonDisabled' = runButtonDisabled]_vars

\* ---------------------------------------------------------------- C24
\* The pixels where the final classification has data and equals 1.
FinalFlood ==
    {p \in DOMAIN result.finalClassification : InMask(result.finalClassification, p)}

\* C24: the displayed flood layer, the flood-area sum and the downloaded
\* raster, each from the moment it exists, are exactly the pixels where
\* finalClassification equals 1, so a classified-flood pixel the patch or
\* slope filter removed is in none of them; the flood and AOI figures shown
\* are the square metres over 10000, to the nearest hundredth of a hectare.
C24_OneFloodMask ==
    /\ result.done =>
          \A p \in DOMAIN result.finalClassification :
              /\ result.floodLayer[p].m <=> p \in FinalFlood
              /\ (InMask(scene.classified, p) /\ p \notin FinalFlood)
                    => ~result.floodLayer[p].m
    /\ areas.floodAreaImage # <<>> =>
          \A p \in DOMAIN result.finalClassification :
              (areas.floodAreaImage[p].m /\ areas.floodAreaImage[p].v # 0)
                  <=> p \in FinalFlood
    /\ areas.floodDownloadLayer # <<>> =>
          \A p \in DOMAIN result.finalClassification :
              areas.floodDownloadLayer[p].m <=> p \in FinalFlood
    /\ areas.shown =>
          LET floodHundredths == 100 * areas.floodHa.units + areas.floodHa.decimals
              aoiHundredths == 100 * areas.aoiHa.units + areas.aoiHa.decimals
              aoiPixels == Cardinality(DOMAIN result.finalClassification)
          IN  /\ areas.floodArea = areas.pixelArea * Cardinality(FinalFlood)
              /\ areas.aoiArea = areas.pixelArea * aoiPixels
              /\ 100 * floodHundredths - areas.floodArea \in (-50)..50
              /\ 100 * aoiHundredths - areas.aoiArea \in (-50)..50

\* A blob that passes and a lone pixel the patch filter removed, on pixels of
\* 150 square metres: the area is the blob's, 1500 square metres, shown as
\* 0.15 ha, and the download layer is built.
C24_Witness ==
    /\ areas.stage = "downloadURL"
    /\ \E p \in DOMAIN scene.classified : InMask(scene.classified, p) /\ p \notin FinalFlood
    /\ areas.floodArea = 1500
    /\ areas.floodHa = [units |-> 0, decimals |-> 15]
    /\ \E p \in DOMAIN areas.floodDownloadLayer : areas.floodDownloadLayer[p].m
====
